---- MODULE Spec2Model ----
(***************************************************************************)
(* EVTX chunk decoding: chunk header parsing, checksum validation, the     *)
(* template cache and the chunk record iterator.                           *)
(*                                                                         *)
(* Representation notes.                                                   *)
(*  - A byte buffer (Vec<u8>, &[u8]) is a sequence of naturals 0..255.     *)
(*    Rust offsets are 0-based; the byte at Rust offset p is data[p + 1].  *)
(*  - A u32 that is only compared for equality (the two checksums) is kept *)
(*    as its four little-endian bytes <<b0, b1, b2, b3>>, because the      *)
(*    model checker's integers are 32-bit signed.  Every other integer     *)
(*    field is a natural number; the inputs keep them below 2^31.          *)
(*  - Option<T> is a sequence of length 0 (None) or 1 (Some(x)).           *)
(*  - A panic (slice index out of range, RefCell borrow failure) is the    *)
(*    outcome "panic": the call never returns and the pass ends.           *)
(***************************************************************************)
EXTENDS Integers, Sequences, FiniteSets, TLC

VARIABLES
    data,                    \* EvtxChunkData.data: the chunk's raw bytes
    validate_flag,           \* the validate_checksum argument given to EvtxChunkData::new
    pc,                      \* where the caller is in the decode pipeline
    header,                  \* Option<EvtxChunkHeader>: EvtxChunkData.header
    new_result,              \* outcome of EvtxChunkData::new
    parse_result,            \* outcome of EvtxChunkData::parse
    check_result,            \* outcome of the last direct validate_* call
    template_table,          \* EvtxChunk.template_table / TemplateCache.0 : offset -> definition
    first_inserted,          \* history: offset -> the first definition ever inserted there
    cache_reply,             \* reply of the last TemplateCache read accessor since the last write
    readers,                 \* outstanding Ref views handed out by get_template_cache
    offset_from_chunk_start, \* IterChunkRecords.offset_from_chunk_start
    exhausted,               \* IterChunkRecords.exhausted
    last_item,               \* what the last call to next() returned
    items,                   \* history: every Some(..) item next() has returned, in order
    binxml                   \* the external BinXML decoder: start offset -> what decoding there gives

vars == <<data, validate_flag, pc, header, new_result, parse_result, check_result, template_table,
          first_inserted, cache_reply, readers, offset_from_chunk_start, exhausted, last_item,
          items, binxml>>

None == <<>>
Some(x) == <<x>>

-----------------------------------------------------------------------------
(* Little-endian integers (byteorder::ReadBytesExt).                        *)

RECURSIVE ReadLE(_, _, _)
ReadLE(bytes, pos, n) ==
    IF n = 0 THEN 0 ELSE bytes[pos + 1] + 256 * ReadLE(bytes, pos + 1, n - 1)

ReadBytes4(bytes, pos) ==
    <<bytes[pos + 1], bytes[pos + 2], bytes[pos + 3], bytes[pos + 4]>>

-----------------------------------------------------------------------------
(* crc32::checksum_ieee: the table-driven, reflected CRC-32 (IEEE 802.3),  *)
(* initial value and final xor 0xFFFFFFFF.                                 *)

RECURSIVE BitXor(_, _, _)
BitXor(a, b, n) ==
    IF n = 0 THEN 0
    ELSE (((a % 2) + (b % 2)) % 2) + 2 * BitXor(a \div 2, b \div 2, n - 1)

XorTable == [a \in 0..255 |-> [b \in 0..255 |-> BitXor(a, b, 8)]]

Xor8(a, b) == XorTable[a][b]

Xor32(p, q) == <<Xor8(p[1], q[1]), Xor8(p[2], q[2]), Xor8(p[3], q[3]), Xor8(p[4], q[4])>>

Shr1(c) == <<(c[1] \div 2) + 128 * (c[2] % 2), (c[2] \div 2) + 128 * (c[3] % 2),
             (c[3] \div 2) + 128 * (c[4] % 2), c[4] \div 2>>

\* The reflected IEEE polynomial 0xEDB88320, least significant byte first.
IEEE == <<32, 131, 184, 237>>

RECURSIVE CrcTableEntry(_, _)
CrcTableEntry(c, n) ==
    IF n = 0 THEN c
    ELSE CrcTableEntry(IF c[1] % 2 = 1 THEN Xor32(Shr1(c), IEEE) ELSE Shr1(c), n - 1)

IEEE_TABLE == [i \in 0..255 |-> CrcTableEntry(<<i, 0, 0, 0>>, 8)]

CrcUpdateByte(crc, b) ==
    LET t == IEEE_TABLE[Xor8(crc[1], b)]
    IN  <<Xor8(crc[2], t[1]), Xor8(crc[3], t[2]), Xor8(crc[4], t[3]), t[4]>>

\* The bytes lo..hi of a buffer folded into the running value, in order (the
\* halving only keeps the evaluation shallow).
RECURSIVE CrcUpdate(_, _, _, _)
CrcUpdate(crc, bytes, lo, hi) ==
    IF lo > hi THEN crc
    ELSE IF lo = hi THEN CrcUpdateByte(crc, bytes[lo])
    ELSE LET mid == (lo + hi) \div 2
             left == CrcUpdate(crc, bytes, lo, mid)
         IN  IF Len(left) = 4 THEN CrcUpdate(left, bytes, mid + 1, hi) ELSE left

checksum_ieee(bytes) ==
    LET c == CrcUpdate(<<255, 255, 255, 255>>, bytes, 1, Len(bytes))
    IN  <<255 - c[1], 255 - c[2], 255 - c[3], 255 - c[4]>>

-----------------------------------------------------------------------------
(* Results.                                                                 *)

Ok(v) == [ok |-> TRUE, err |-> "", value |-> Some(v)]
Err(e) == [ok |-> FALSE, err |-> e, value |-> None]

\* A call that returns a bool, or that panics and returns nothing.  found is the
\* checksum the call computed and logged ("found: ..."), when it computed one.
Returns(b) == [panic |-> FALSE, value |-> b, found |-> None]
Panics == [panic |-> TRUE, value |-> FALSE, found |-> None]

\* checksum == expected_checksum
Compared(checksum, expected) ==
    [panic |-> FALSE, value |-> (checksum = expected), found |-> Some(checksum)]

-----------------------------------------------------------------------------
(* EvtxChunkHeader::from_reader                                             *)

EVTX_CHUNK_HEADER_SIZE == 512

\* b"ElfChnk\x00"
ChunkMagic == <<69, 108, 102, 67, 104, 110, 107, 0>>

\* vec![0_u32; 64] filled by read_u32_into at the cursor (offset 128).
ReadStringsOffsets(bytes) == [i \in 1..64 |-> ReadLE(bytes, 128 + 4 * (i - 1), 4)]

\* vec![0_u32; 32] filled by read_u32_into at the cursor (offset 384).
ReadTemplateOffsets(bytes) == [i \in 1..32 |-> ReadLE(bytes, 384 + 4 * (i - 1), 4)]

\* The reads are sequential: 8 magic, 4 x u64, 4 x u32, seek 64, seek 4, u32,
\* 64 x u32, 32 x u32.  The last read ends at offset 512, and every read fails
\* on a short buffer, so a buffer shorter than 512 bytes is an I/O error (a seek
\* of a Cursor past its end succeeds; the read after it fails).
MagicMatches_without_nul(magic) == SubSeq(magic, 1, 7) = SubSeq(ChunkMagic, 1, 7)

\* ensure!(&magic == b"ElfChnk\x00", ...)
MagicMatches(magic) == magic = ChunkMagic

from_reader(input) ==
    IF Len(input) < 8 THEN Err("Io")
    ELSE IF ~MagicMatches(SubSeq(input, 1, 8)) THEN Err("InvalidEvtxChunkMagic")
    ELSE IF Len(input) < 512 THEN Err("Io")
    ELSE Ok([first_event_record_number     |-> ReadLE(input, 8, 8),
             last_event_record_number      |-> ReadLE(input, 16, 8),
             first_event_record_id         |-> ReadLE(input, 24, 8),
             last_event_record_id          |-> ReadLE(input, 32, 8),
             header_size                   |-> ReadLE(input, 40, 4),
             last_event_record_data_offset |-> ReadLE(input, 44, 4),
             free_space_offset             |-> ReadLE(input, 48, 4),
             events_checksum               |-> ReadBytes4(input, 52),
             header_chunk_checksum         |-> ReadBytes4(input, 124),
             strings_offsets               |-> ReadStringsOffsets(input),
             template_offsets              |-> ReadTemplateOffsets(input)])

-----------------------------------------------------------------------------
(* EvtxChunkData: checksum validation                                       *)

\* &self.data[EVTX_CHUNK_HEADER_SIZE..free_space_offset as usize]: the range
\* must satisfy start <= end <= len, otherwise the slice expression panics.
DataChecksumRangeOk(bytes, hdr) ==
    /\ EVTX_CHUNK_HEADER_SIZE <= hdr.free_space_offset
    /\ hdr.free_space_offset <= Len(bytes)

ComputeDataChecksum_to_end(bytes, hdr) ==
    checksum_ieee(SubSeq(bytes, EVTX_CHUNK_HEADER_SIZE + 1, Len(bytes)))

ComputeDataChecksum(bytes, hdr) ==
    checksum_ieee(SubSeq(bytes, EVTX_CHUNK_HEADER_SIZE + 1, hdr.free_space_offset))

validate_data_checksum(bytes, hdr) ==
    IF ~DataChecksumRangeOk(bytes, hdr) THEN Panics
    ELSE Compared(ComputeDataChecksum(bytes, hdr), hdr.events_checksum)

HeaderBytes1_through_flags(bytes) == SubSeq(bytes, 1, 124)

\* header_bytes_1 = &self.data[..120], header_bytes_2 = &self.data[128..512]
HeaderBytes1(bytes) == SubSeq(bytes, 1, 120)

HeaderBytes2(bytes) == SubSeq(bytes, 129, 512)

ComputeHeaderChecksum(bytes) == checksum_ieee(HeaderBytes1(bytes) \o HeaderBytes2(bytes))

\* A chunk whose header parsed holds at least 512 bytes, so the two slices exist.
validate_header_checksum(bytes, hdr) ==
    Compared(ComputeHeaderChecksum(bytes), hdr.header_chunk_checksum)

validate_checksum_header_only(bytes, hdr) ==
    Returns(validate_header_checksum(bytes, hdr).value)

\* self.validate_header_checksum() && self.validate_data_checksum(): the data
\* checksum is only evaluated when the header checksum matched.
validate_checksum(bytes, hdr) ==
    IF ~validate_header_checksum(bytes, hdr).value THEN Returns(FALSE)
    ELSE LET d == validate_data_checksum(bytes, hdr)
         IN  IF d.panic THEN Panics ELSE Returns(d.value)

\* EvtxChunkData::new(data, validate_checksum): "ok", an error name, or "panic".
NewOutcome(bytes, validate) ==
    LET h == from_reader(bytes)
    IN  IF ~h.ok THEN h.err
        ELSE IF ~validate THEN "ok"
        ELSE LET v == validate_checksum(bytes, h.value[1])
             IN  IF v.panic THEN "panic"
                 ELSE IF v.value THEN "ok" ELSE "InvalidChunkChecksum"

-----------------------------------------------------------------------------
(* The external BinXML token decoder (BinXmlDeserializer).  What it does   *)
(* with the bytes at a start offset is fixed for a given chunk: binxml     *)
(* maps a start offset to                                                  *)
(*   iter_ok : whether iter_tokens(Some(size)) returns Ok(iter)            *)
(*   stream  : the results the token iterator then yields, in order; the   *)
(*             string "Err" is a failed token, any other string a token.   *)
(*   puts    : the template definitions the decoder inserts lazily into    *)
(*             the chunk's template cache while decoding there.            *)

\* Decoding at an offset where nothing decodable was laid out fails.
DecodeFails == [iter_ok |-> FALSE, stream |-> <<>>, puts |-> <<>>]

iter_tokens(dec, start) == IF start \in DOMAIN dec THEN dec[start] ELSE DecodeFails

-----------------------------------------------------------------------------
(* EvtxRecordHeader: magic, data_size (u32), event_record_id (u64),        *)
(* timestamp (64-bit FILETIME).                                            *)

\* b"\x2a\x2a\x00\x00"
RecordMagic == <<42, 42, 0, 0>>

\* Bytes EvtxRecordHeader::from_reader consumes: 4 + 4 + 8 + 8.
RECORD_HEADER_SIZE == 24

\* Header plus the trailing copy of data_size: the fixed overhead of a record.
RECORD_OVERHEAD == 28

\* EvtxRecordHeader::from_reader on a cursor over bytes[off..].
RecordHeader_from_reader(bytes, off) ==
    LET avail == Len(bytes) - off
    IN  IF avail < 4 THEN Err("Io")
        ELSE IF SubSeq(bytes, off + 1, off + 4) # RecordMagic
             THEN Err("InvalidEvtxRecordHeaderMagic")
        ELSE IF avail < RECORD_HEADER_SIZE THEN Err("Io")
        ELSE Ok([data_size       |-> ReadLE(bytes, off + 4, 4),
                 event_record_id |-> ReadLE(bytes, off + 8, 8),
                 timestamp       |-> ReadLE(bytes, off + 16, 8)])

\* data_size minus the fixed overhead, in u32 arithmetic: the 32-bit value as
\* its two 16-bit halves (a data_size below the overhead wraps around).
record_data_size(h) ==
    LET d == h.data_size - RECORD_OVERHEAD
    IN  IF d >= 0 THEN [hi |-> d \div 65536, lo |-> d % 65536]
        ELSE [hi |-> 65536 + (d \div 65536), lo |-> d % 65536]

-----------------------------------------------------------------------------
(* TemplateCache                                                            *)

\* HashMap::insert: the value at the key is replaced when the key is present.
HashMapInsert(map, k, v) == [x \in (DOMAIN map) \cup {k} |-> IF x = k THEN v ELSE map[x]]

EmptyMap == [x \in {} |-> 0]

\* read_template_definition(&mut cursor, None) with the cursor at off: the
\* next-template offset, the 16-byte identifier, the declared data size, then
\* the body's tokens through the token decoder.
TEMPLATE_HEADER_SIZE == 24

RECURSIVE FirstErr(_, _)
FirstErr(stream, i) ==
    IF i > Len(stream) THEN 0
    ELSE IF stream[i] = "Err" THEN i ELSE FirstErr(stream, i + 1)

read_template_definition(bytes, dec, off) ==
    IF Len(bytes) - off < TEMPLATE_HEADER_SIZE THEN Err("Io")
    ELSE LET body == iter_tokens(dec, off + TEMPLATE_HEADER_SIZE)
         IN  IF ~body.iter_ok \/ FirstErr(body.stream, 1) # 0
             THEN Err("FailedToDeserializeTemplate")
             ELSE Ok([next_template_offset |-> ReadLE(bytes, off, 4),
                      template_guid        |-> SubSeq(bytes, off + 5, off + 20),
                      data_size            |-> ReadLE(bytes, off + 20, 4),
                      tokens               |-> body.stream])

\* The loop of TemplateCache::populate from slot i on: zero offsets are
\* filtered out, the first failing definition ends the call with its error, and
\* every decoded definition is inserted at its offset.
RECURSIVE PopulateFrom_skipping_failures(_, _, _, _, _)
PopulateFrom_skipping_failures(bytes, dec, offsets, i, cache) ==
    IF i > Len(offsets) THEN Ok(cache)
    ELSE IF ~(offsets[i] > 0)
    THEN PopulateFrom_skipping_failures(bytes, dec, offsets, i + 1, cache)
    ELSE LET definition == read_template_definition(bytes, dec, offsets[i])
         IN  IF ~definition.ok
             THEN PopulateFrom_skipping_failures(bytes, dec, offsets, i + 1, cache)
             ELSE PopulateFrom_skipping_failures(bytes, dec, offsets, i + 1,
                      HashMapInsert(cache, offsets[i], definition.value[1]))

RECURSIVE PopulateFrom(_, _, _, _, _)
PopulateFrom(bytes, dec, offsets, i, cache) ==
    IF i > Len(offsets) THEN Ok(cache)
    ELSE IF ~(offsets[i] > 0) THEN PopulateFrom(bytes, dec, offsets, i + 1, cache)
    ELSE LET definition == read_template_definition(bytes, dec, offsets[i])
         IN  IF ~definition.ok THEN Err(definition.err)
             ELSE PopulateFrom(bytes, dec, offsets, i + 1,
                               HashMapInsert(cache, offsets[i], definition.value[1]))

TemplateCache_populate_from_second(bytes, dec, offsets) ==
    PopulateFrom(bytes, dec, offsets, 2, EmptyMap)

TemplateCache_populate(bytes, dec, offsets) == PopulateFrom(bytes, dec, offsets, 1, EmptyMap)

\* self.0.borrow().get(&offset).map(|template_def| template_def.data_size)
get_template_data_offset(cache, offset) ==
    IF offset \in DOMAIN cache THEN Some(cache[offset].data_size) ELSE None

\* self.0.borrow_mut().insert(offset, template)
put_template(cache, offset, template) == HashMapInsert(cache, offset, template)

\* self.0.borrow().len()
TemplateCache_len(cache) == Cardinality(DOMAIN cache)

-----------------------------------------------------------------------------
(* StringCache::populate: every nonzero offset of the 64-slot table is     *)
(* decoded; decoding a string record that starts outside the buffer fails. *)

StringCache_populate_ok(bytes, offsets) ==
    \A i \in 1..Len(offsets) : offsets[i] > 0 => offsets[i] < Len(bytes)

\* EvtxChunk::new: the string cache first, then the template cache; either
\* failure is returned by `?`.
EvtxChunk_new(bytes, hdr, dec) ==
    IF ~StringCache_populate_ok(bytes, hdr.strings_offsets) THEN Err("Io")
    ELSE TemplateCache_populate(bytes, dec, hdr.template_offsets)

-----------------------------------------------------------------------------
(* IterChunkRecords::next                                                   *)

HeaderErrorItem(e, at) ==
    [kind |-> "error", err |-> e, record_id |-> None, timestamp |-> None,
     tokens |-> <<>>, at |-> at]

RecordErrorItem(h, at) ==
    [kind |-> "error", err |-> "FailedToDeserializeRecord",
     record_id |-> Some(h.event_record_id), timestamp |-> None, tokens |-> <<>>, at |-> at]

RecordItem_truncated(h, tokens, at) ==
    [kind |-> "record", err |-> "", record_id |-> Some(h.event_record_id),
     timestamp |-> Some(h.timestamp), tokens |-> SubSeq(tokens, 1, Len(tokens) - 1), at |-> at]

RecordItem(h, tokens, at) ==
    [kind |-> "record", err |-> "", record_id |-> Some(h.event_record_id),
     timestamp |-> Some(h.timestamp), tokens |-> tokens, at |-> at]

\* What one call returns and leaves behind.  ret is "none", "some" or "panic";
\* call is the token decoder the call set up, if it got that far.
Step(ret, item, off, exh, puts, call) ==
    [ret |-> ret, item |-> item, offset |-> off, exhausted |-> exh, puts |-> puts,
     call |-> call]

AtEnd_exhausted_only(hdr, off, exh) == exh

\* Lines 209-213: the end-of-sequence test.
AtEnd(hdr, off, exh) == exh \/ off >= hdr.free_space_offset

\* Line 215: &self.chunk.data[offset..] panics when offset > data.len().
CursorSliceOk(bytes, off) == off <= Len(bytes)

\* Lines 264 and 270: the cursor after a record whose tokens were iterated.
Advance(off, h) == off + h.data_size

\* Line 252: the cursor after iter_tokens itself returned an error.
AfterIterError(off, h) == off

ExhaustedAfterRecord_never(hdr, h) == FALSE

ExhaustedAfterRecord_always(hdr, h) == TRUE

\* Lines 272-274: exhausted after a fully decoded record.
ExhaustedAfterRecord(hdr, h) == hdr.last_event_record_id = h.event_record_id

ExhaustedAfterHeaderError_forgotten == FALSE

\* Lines 219-224: exhausted after a record header that failed to parse.
ExhaustedAfterHeaderError == TRUE

DeserializerCall_at_record_start(off, h) ==
    [start |-> off, size |-> record_data_size(h)]

\* Lines 230-246: BinXmlDeserializer::init(data, offset + cursor.position(), ..)
\* and iter_tokens(Some(record_header.record_data_size())).
DeserializerCall(off, h) ==
    [start |-> off + RECORD_HEADER_SIZE, size |-> record_data_size(h)]

next(bytes, hdr, dec, off, exh) ==
    IF AtEnd(hdr, off, exh) THEN Step("none", None, off, exh, <<>>, None)
    ELSE IF ~CursorSliceOk(bytes, off) THEN Step("panic", None, off, exh, <<>>, None)
    ELSE LET record_header == RecordHeader_from_reader(bytes, off)
         IN  IF ~record_header.ok
             THEN Step("some", Some(HeaderErrorItem(record_header.err, off)), off,
                       ExhaustedAfterHeaderError, <<>>, None)
             ELSE LET h == record_header.value[1]
                      c == DeserializerCall(off, h)
                      d == iter_tokens(dec, c.start)
                      e == FirstErr(d.stream, 1)
                  IN  IF ~d.iter_ok
                      THEN Step("some", Some(RecordErrorItem(h, off)),
                                AfterIterError(off, h), exh, <<>>, Some(c))
                      ELSE IF e # 0
                      THEN Step("some", Some(RecordErrorItem(h, off)),
                                Advance(off, h), exh, d.puts, Some(c))
                      ELSE Step("some", Some(RecordItem(h, d.stream, off)),
                                Advance(off, h),
                                IF ExhaustedAfterRecord(hdr, h) THEN TRUE ELSE exh,
                                d.puts, Some(c))

\* The lazy inserts the decoder made while decoding one record, in order.
RECURSIVE ApplyPuts(_, _, _)
ApplyPuts(cache, puts, i) ==
    IF i > Len(puts) THEN cache
    ELSE ApplyPuts(put_template(cache, puts[i].offset, puts[i].template), puts, i + 1)

\* The history of first insertions: an offset keeps the first definition.
RememberFirst(first, offset, template) ==
    IF offset \in DOMAIN first THEN first ELSE HashMapInsert(first, offset, template)

RECURSIVE RememberPuts(_, _, _)
RememberPuts(first, puts, i) ==
    IF i > Len(puts) THEN first
    ELSE RememberPuts(RememberFirst(first, puts[i].offset, puts[i].template), puts, i + 1)

-----------------------------------------------------------------------------
(* Bounds of the model.                                                     *)

\* Records laid out in a chunk's event-data region.
MaxRecords == 2

\* Items one iterator is asked for (a record that does not advance the cursor
\* is produced again and again; the history stops here).
MaxItems == 4

\* Outstanding Ref views of the template cache.
MaxReaders == 2

-----------------------------------------------------------------------------
(* The input space: chunk buffers as a writer of the format lays them out. *)

RECURSIVE WriteLE(_, _)
WriteLE(v, n) == IF n = 0 THEN <<>> ELSE <<v % 256>> \o WriteLE(v \div 256, n - 1)

Zeros(n) == [i \in 1..n |-> 0]

\* bytes with w written at Rust offset pos.
Patch(bytes, pos, w) ==
    SubSeq(bytes, 1, pos) \o w \o SubSeq(bytes, pos + Len(w) + 1, Len(bytes))

Signature == <<69, 108, 102, 67, 104, 110, 107, 0>>

\* A 32-slot template table whose first slots are given.
TemplateSlots(slots) == [i \in 1..32 |-> IF i <= Len(slots) THEN slots[i] ELSE 0]

RECURSIVE Concat(_, _)
Concat(seqs, i) == IF i > Len(seqs) THEN <<>> ELSE seqs[i] \o Concat(seqs, i + 1)

\* The 512 header bytes, both checksum fields zero.
HeaderBytes(last_id, fso, flags, slots) ==
    Signature \o WriteLE(1, 8) \o WriteLE(last_id, 8) \o WriteLE(1, 8) \o WriteLE(last_id, 8)
    \o WriteLE(128, 4) \o WriteLE(512, 4) \o WriteLE(fso, 4) \o Zeros(4)
    \o Zeros(64) \o WriteLE(flags, 4) \o Zeros(4)
    \o Zeros(256) \o Concat([i \in 1..32 |-> WriteLE(TemplateSlots(slots)[i], 4)], 1)

Bump(w) == <<(w[1] + 1) % 256, w[2], w[3], w[4]>>

\* The buffer with its two checksum fields filled in as a writer would, each
\* one optionally off by one.
Seal(bytes, fso, data_bad, hdr_bad) ==
    LET e  == IF 512 <= fso /\ fso <= Len(bytes)
              THEN checksum_ieee(SubSeq(bytes, 513, fso)) ELSE Zeros(4)
        b1 == Patch(bytes, 52, IF data_bad THEN Bump(e) ELSE e)
        h  == checksum_ieee(SubSeq(b1, 1, 120) \o SubSeq(b1, 129, 512))
    IN  Patch(b1, 124, IF hdr_bad THEN Bump(h) ELSE h)

\* What the decoder makes of a record's payload.
DecOk == [iter_ok |-> TRUE, stream |-> <<"FragmentHeader", "TemplateInstance", "EndOfStream">>,
          puts |-> <<>>]

DecTokenErr == [iter_ok |-> TRUE, stream |-> <<"FragmentHeader", "Err", "EndOfStream">>,
                puts |-> <<>>]

DecIterErr == [iter_ok |-> FALSE, stream |-> <<>>, puts |-> <<>>]

LazyTemplate == [next_template_offset |-> 0, template_guid |-> Zeros(16), data_size |-> 64,
                 tokens |-> <<"OpenStartElement", "CloseEmptyElement">>]

DecOkPut == [iter_ok |-> TRUE, stream |-> <<"FragmentHeader", "TemplateInstance", "EndOfStream">>,
             puts |-> <<[offset |-> 550, template |-> LazyTemplate]>>]

\* The records a chunk is laid out from: the signature is intact or not, the
\* declared data_size, and what the payload decodes to.
RecordKinds ==
    { [magic_ok |-> TRUE,  size |-> 32, dec |-> DecOk],
      [magic_ok |-> TRUE,  size |-> 48, dec |-> DecOkPut],
      [magic_ok |-> TRUE,  size |-> 0,  dec |-> DecOk],
      [magic_ok |-> FALSE, size |-> 32, dec |-> DecOk],
      [magic_ok |-> TRUE,  size |-> 32, dec |-> DecIterErr],
      [magic_ok |-> TRUE,  size |-> 40, dec |-> DecTokenErr] }

Layouts == UNION { [1..n -> RecordKinds] : n \in 0..MaxRecords }

\* Bytes a record occupies in the buffer: its declared size, or its bare header
\* when it declares less.
Slot(r) == IF r.size >= 24 THEN r.size ELSE 24

RECURSIVE RecordPos(_, _)
RecordPos(recs, i) == IF i = 1 THEN 512 ELSE RecordPos(recs, i - 1) + Slot(recs[i - 1])

LayoutEnd(recs) == RecordPos(recs, Len(recs) + 1)

\* Record i has event_record_id i and timestamp 100 + i.
RecordBytes(r, i) ==
    (IF r.magic_ok THEN <<42, 42, 0, 0>> ELSE <<42, 41, 0, 0>>)
    \o WriteLE(r.size, 4) \o WriteLE(i, 8) \o WriteLE(100 + i, 8)
    \o (IF Slot(r) >= 28 THEN Zeros(Slot(r) - 28) \o WriteLE(r.size, 4) ELSE Zeros(Slot(r) - 24))

DataRegion(recs) == Concat([i \in 1..Len(recs) |-> RecordBytes(recs[i], i)], 1)

DecoderOf(recs) ==
    [p \in { RecordPos(recs, i) + 24 : i \in 1..Len(recs) } |->
        recs[CHOOSE i \in 1..Len(recs) : RecordPos(recs, i) + 24 = p].dec ]

\* The chunks the iterator is run on: the layout, the header's
\* last_event_record_id, where free_space_offset points ("end" of the records,
\* after the "first" record, "inside" the first record, or "beyond" the
\* buffer), how many bytes are cut
\* off the end of the buffer, and whether the checksum fields are filled in.
ChunkVariants ==
    { [last_id |-> 1, fso |-> "end",    cut |-> 0, seal |-> FALSE],
      [last_id |-> 2, fso |-> "end",    cut |-> 0, seal |-> FALSE],
      [last_id |-> 7, fso |-> "end",    cut |-> 0, seal |-> TRUE],
      [last_id |-> 7, fso |-> "first",  cut |-> 0, seal |-> FALSE],
      [last_id |-> 7, fso |-> "inside", cut |-> 0, seal |-> FALSE],
      [last_id |-> 2, fso |-> "beyond", cut |-> 0, seal |-> FALSE],
      [last_id |-> 7, fso |-> "beyond", cut |-> 8, seal |-> FALSE] }

FreeSpaceOffsetOf(recs, mode) ==
    CASE mode = "end"    -> LayoutEnd(recs)
      [] mode = "first"  -> IF Len(recs) = 0 THEN 512 ELSE RecordPos(recs, 2)
      [] mode = "inside" -> 528
      [] mode = "beyond" -> LayoutEnd(recs) + 64

ChunkOf(recs, v) ==
    LET fso  == FreeSpaceOffsetOf(recs, v.fso)
        full == HeaderBytes(v.last_id, fso, 0, <<>>) \o DataRegion(recs)
        cut  == SubSeq(full, 1, Len(full) - v.cut)
    IN  IF v.seal THEN Seal(cut, fso, FALSE, FALSE) ELSE cut

-----------------------------------------------------------------------------
(* State before anything was called.                                        *)

NoCheck == [fn |-> "", panic |-> FALSE, value |-> FALSE, found |-> None]

NoReply == [fn |-> "", offset |-> 0, value |-> None]

NotCalled == [ret |-> "", item |-> None, call |-> None]

Untouched ==
    /\ validate_flag = FALSE
    /\ header = None
    /\ new_result = ""
    /\ parse_result = ""
    /\ check_result = NoCheck
    /\ template_table = EmptyMap
    /\ first_inserted = EmptyMap
    /\ cache_reply = NoReply
    /\ readers = 0
    /\ offset_from_chunk_start = 0
    /\ exhausted = FALSE
    /\ last_item = NotCalled
    /\ items = <<>>

\* A raw buffer, laid out as records, about to be handed to EvtxChunkData::new.
Init ==
    /\ \E recs \in Layouts, v \in ChunkVariants :
          /\ data = ChunkOf(recs, v)
          /\ binxml = DecoderOf(recs)
    /\ pc = "raw"
    /\ Untouched

-----------------------------------------------------------------------------
(* The operations.                                                          *)

\* EvtxChunkData::new(data, validate_checksum)
New ==
    /\ pc = "raw"
    /\ \E v \in BOOLEAN :
          \E r \in {NewOutcome(data, v)} :
              /\ validate_flag' = v
              /\ new_result' = r
              /\ header' = IF r = "ok" THEN from_reader(data).value ELSE None
              /\ pc' = IF r = "ok" THEN "chunk_data"
                       ELSE IF r = "panic" THEN "aborted" ELSE "failed"
    /\ UNCHANGED <<data, parse_result, check_result, template_table, first_inserted,
                   cache_reply, readers, offset_from_chunk_start, exhausted, last_item,
                   items, binxml>>

\* EvtxChunkData::parse -> EvtxChunk::new
Parse ==
    /\ pc = "chunk_data"
    /\ \E r \in {EvtxChunk_new(data, header[1], binxml)} :
           /\ parse_result' = IF r.ok THEN "ok" ELSE r.err
           /\ pc' = IF r.ok THEN "chunk" ELSE "parse_failed"
           /\ template_table' = IF r.ok THEN r.value[1] ELSE template_table
           /\ first_inserted' = IF r.ok THEN r.value[1] ELSE first_inserted
    /\ UNCHANGED <<data, validate_flag, header, new_result, check_result, cache_reply,
                   readers, offset_from_chunk_start, exhausted, last_item, items, binxml>>

\* EvtxChunk::iter
Iter ==
    /\ pc = "chunk"
    /\ readers = 0
    /\ pc' = "iter"
    /\ offset_from_chunk_start' = EVTX_CHUNK_HEADER_SIZE
    /\ exhausted' = FALSE
    /\ UNCHANGED <<data, validate_flag, header, new_result, parse_result, check_result,
                   template_table, first_inserted, cache_reply, readers, last_item, items,
                   binxml>>

\* IterChunkRecords::next
IterChunkRecords_next ==
    /\ pc = "iter"
    /\ Len(items) < MaxItems
    /\ \E r \in {next(data, header[1], binxml, offset_from_chunk_start, exhausted)} :
           /\ last_item' = [ret |-> r.ret, item |-> r.item, call |-> r.call]
           /\ items' = IF r.ret = "some" THEN Append(items, r.item[1]) ELSE items
           /\ offset_from_chunk_start' = r.offset
           /\ exhausted' = r.exhausted
           /\ template_table' = ApplyPuts(template_table, r.puts, 1)
           /\ first_inserted' = RememberPuts(first_inserted, r.puts, 1)
           /\ pc' = IF r.ret = "panic" THEN "aborted" ELSE "iter"
    /\ UNCHANGED <<data, validate_flag, header, new_result, parse_result, check_result,
                   cache_reply, readers, binxml>>

Next == New \/ Parse \/ Iter \/ IterChunkRecords_next

Spec == Init /\ [][Next]_vars

-----------------------------------------------------------------------------
(* Checksum validation on its own: buffers of one record and 16 bytes of    *)
(* unused space, with free_space_offset, the flags field, the two checksum  *)
(* fields, the signature and the buffer length varied.                      *)

OneRecord == <<[magic_ok |-> TRUE, size |-> 32, dec |-> DecOk]>>

ChecksumCases ==
    { [fso |-> f, flags |-> g, data_bad |-> d, hdr_bad |-> h, magic_at |-> 0, keep |-> 560] :
        f \in {100, 512, 544, 560, 568}, g \in {0, 1}, d \in BOOLEAN, h \in BOOLEAN }
    \cup
    { [fso |-> 544, flags |-> 0, data_bad |-> FALSE, hdr_bad |-> FALSE, magic_at |-> m,
       keep |-> k] : m \in 1..8, k \in {560} }
    \cup
    { [fso |-> 544, flags |-> 0, data_bad |-> FALSE, hdr_bad |-> FALSE, magic_at |-> m,
       keep |-> k] : m \in {0, 3}, k \in {4, 8, 300} }

ChecksumChunk(c) ==
    LET full   == HeaderBytes(1, c.fso, c.flags, <<>>) \o DataRegion(OneRecord) \o Zeros(16)
        sealed == Seal(full, c.fso, c.data_bad, c.hdr_bad)
        broken == IF c.magic_at = 0 THEN sealed
                  ELSE Patch(sealed, c.magic_at - 1, <<(sealed[c.magic_at] + 1) % 256>>)
    IN  SubSeq(broken, 1, c.keep)

InitChecksum ==
    /\ \E c \in ChecksumCases : data = ChecksumChunk(c)
    /\ binxml = DecoderOf(OneRecord)
    /\ pc = "raw"
    /\ Untouched

\* A direct call of one of the three public validate_* methods of a chunk.
Validate(fn, r) ==
    /\ check_result' = [fn |-> fn, panic |-> r.panic, value |-> r.value, found |-> r.found]
    /\ pc' = IF r.panic THEN "aborted" ELSE pc
    /\ UNCHANGED <<data, validate_flag, header, new_result, parse_result, template_table,
                   first_inserted, cache_reply, readers, offset_from_chunk_start, exhausted,
                   last_item, items, binxml>>

ValidateHeaderChecksum ==
    /\ pc = "chunk_data"
    /\ \E r \in {validate_header_checksum(data, header[1])} :
          Validate("validate_header_checksum", r)

ValidateDataChecksum ==
    /\ pc = "chunk_data"
    /\ \E r \in {validate_data_checksum(data, header[1])} :
          Validate("validate_data_checksum", r)

ValidateChecksum ==
    /\ pc = "chunk_data"
    /\ \E r \in {validate_checksum(data, header[1])} :
          Validate("validate_checksum", r)

NextChecksum == New \/ ValidateHeaderChecksum \/ ValidateDataChecksum \/ ValidateChecksum

SpecChecksum == InitChecksum /\ [][NextChecksum]_vars

-----------------------------------------------------------------------------
(* The template cache on its own: chunks holding two template definitions   *)
(* (at 512 and 544, 32 bytes each) and a template table naming them.        *)

TemplateBytes(guid, size, body) ==
    WriteLE(0, 4) \o [i \in 1..16 |-> guid] \o WriteLE(size, 4) \o Zeros(body)

DecBody == [iter_ok |-> TRUE, stream |-> <<"OpenStartElement", "CloseEmptyElement">>,
            puts |-> <<>>]

\* The table's first slots: empty, repeated, zero slots in between, an offset
\* past the end of the 576-byte buffer.
TableCases ==
    { <<>>, <<512>>, <<512, 0, 512>>, <<512, 544>>, <<544, 0, 512, 544>>, <<600>>,
      <<512, 600>>, <<0, 544>> }

CacheChunk(slots) ==
    HeaderBytes(1, 576, 0, slots) \o TemplateBytes(1, 10, 8) \o TemplateBytes(2, 20, 8)

\* The state after EvtxChunkData::new(data, false) succeeded on such a chunk.
\* The first slot of the string table: empty, or an offset past the buffer.
StringCases == {0, 700}

InitCache ==
    /\ \E slots \in TableCases, second \in {DecBody, DecTokenErr}, str \in StringCases :
          /\ data = Patch(CacheChunk(slots), 128, WriteLE(str, 4))
          /\ binxml = (536 :> DecBody) @@ (568 :> second)
    /\ pc = "chunk_data"
    /\ header = from_reader(data).value
    /\ new_result = "ok"
    /\ validate_flag = FALSE
    /\ parse_result = ""
    /\ check_result = NoCheck
    /\ template_table = EmptyMap
    /\ first_inserted = EmptyMap
    /\ cache_reply = NoReply
    /\ readers = 0
    /\ offset_from_chunk_start = 0
    /\ exhausted = FALSE
    /\ last_item = NotCalled
    /\ items = <<>>

PutOffsets == {512, 560}

QueryOffsets == {512, 544, 560}

OtherTemplate == [next_template_offset |-> 0, template_guid |-> Zeros(16), data_size |-> 96,
                  tokens |-> <<"OpenStartElement", "CloseEmptyElement">>]

PutTemplates == {LazyTemplate, OtherTemplate}

\* RefCell::borrow_mut succeeds only while no Ref (or RefMut) is alive.
BorrowMutOk(n) == n = 0

\* TemplateCache::put_template(offset, template), called through &EvtxChunk.
PutTemplate ==
    /\ pc = "chunk"
    /\ \E o \in PutOffsets, t \in PutTemplates :
          IF BorrowMutOk(readers)
          THEN /\ template_table' = put_template(template_table, o, t)
               /\ first_inserted' = RememberFirst(first_inserted, o, t)
               /\ pc' = pc
          ELSE /\ pc' = "aborted"
               /\ UNCHANGED <<template_table, first_inserted>>
    /\ cache_reply' = NoReply
    /\ UNCHANGED <<data, validate_flag, header, new_result, parse_result, check_result,
                   readers, offset_from_chunk_start, exhausted, last_item, items, binxml>>

\* TemplateCache::get_template_data_offset(offset)
GetTemplateDataOffset ==
    /\ pc = "chunk"
    /\ \E o \in QueryOffsets :
          cache_reply' = [fn |-> "get_template_data_offset", offset |-> o,
                          value |-> get_template_data_offset(template_table, o)]
    /\ UNCHANGED <<data, validate_flag, pc, header, new_result, parse_result, check_result,
                   template_table, first_inserted, readers, offset_from_chunk_start,
                   exhausted, last_item, items, binxml>>

\* TemplateCache::len()
TemplateLen ==
    /\ pc = "chunk"
    /\ cache_reply' = [fn |-> "len", offset |-> 0,
                       value |-> Some(TemplateCache_len(template_table))]
    /\ UNCHANGED <<data, validate_flag, pc, header, new_result, parse_result, check_result,
                   template_table, first_inserted, readers, offset_from_chunk_start,
                   exhausted, last_item, items, binxml>>

\* TemplateCache::get_template_cache(): the caller keeps the Ref it returns.
GetTemplateCache ==
    /\ pc = "chunk"
    /\ readers < MaxReaders
    /\ readers' = readers + 1
    /\ UNCHANGED <<data, validate_flag, pc, header, new_result, parse_result, check_result,
                   template_table, first_inserted, cache_reply, offset_from_chunk_start,
                   exhausted, last_item, items, binxml>>

\* The caller drops a Ref.
DropRef ==
    /\ pc = "chunk"
    /\ readers > 0
    /\ readers' = readers - 1
    /\ UNCHANGED <<data, validate_flag, pc, header, new_result, parse_result, check_result,
                   template_table, first_inserted, cache_reply, offset_from_chunk_start,
                   exhausted, last_item, items, binxml>>

NextCache ==
    Parse \/ PutTemplate \/ GetTemplateDataOffset \/ TemplateLen \/ GetTemplateCache \/ DropRef

SpecCache == InitCache /\ [][NextCache]_vars

-----------------------------------------------------------------------------
(* Properties.                                                              *)

IsRecord(it) == it.kind = "record"

IsHeaderError(it) == it.kind = "error" /\ it.record_id = None

IsDecodeError(it) == it.kind = "error" /\ it.record_id # None

\* The item is record N: a decoded record whose id is the header's
\* last_event_record_id.
IsLastRecord(it) == IsRecord(it) /\ it.record_id = Some(header[1].last_event_record_id)

\* C1: once next has produced the record whose id equals the header's
\* last_event_record_id, that record is the last item of the sequence: the
\* iterator is exhausted, every item before it was parsed at an earlier
\* position, and every later call returned None and produced nothing, also
\* when the cursor is still below free_space_offset.
C1_StopsAfterLastRecord ==
    \A k \in 1..Len(items) :
        IsLastRecord(items[k]) =>
            /\ k = Len(items)
            /\ exhausted
            /\ pc = "iter"
            /\ last_item.ret \in {"some", "none"}
            /\ last_item.ret = "some" => last_item.item = Some(items[k])
            /\ \A j \in 1..(k - 1) : items[j].at < items[k].at

\* C1's case: record N was produced, a later call returned None, and an intact
\* record header still lies at the cursor, below free_space_offset.
C1_Witness ==
    /\ pc = "iter"
    /\ \E k \in 1..Len(items) : IsLastRecord(items[k])
    /\ last_item.ret = "none"
    /\ offset_from_chunk_start < header[1].free_space_offset
    /\ RecordHeader_from_reader(data, offset_from_chunk_start).ok

\* C2: a record header that fails to parse yields one error, which is the last
\* item: the iterator is exhausted with its cursor where the header failed, and
\* every later call returned None.
C2_HeaderErrorIsFinal ==
    \A k \in 1..Len(items) :
        IsHeaderError(items[k]) =>
            /\ k = Len(items)
            /\ exhausted
            /\ pc = "iter"
            /\ offset_from_chunk_start = items[k].at
            /\ last_item.ret \in {"some", "none"}
            /\ last_item.ret = "some" => last_item.item = Some(items[k])

\* C2's case: after a decoded record the next header failed to parse, and a
\* later call returned None although the cursor is below free_space_offset.
C2_Witness ==
    /\ pc = "iter"
    /\ Len(items) >= 2
    /\ IsRecord(items[1])
    /\ IsHeaderError(items[Len(items)])
    /\ last_item.ret = "none"
    /\ offset_from_chunk_start < header[1].free_space_offset

\* The data_size declared by the record header at Rust offset at.
DeclaredSize(at) == ReadLE(data, at + 4, 4)

\* C3: a call to next that yields a decode error for a record (its header
\* parsed, the token decoder failed) leaves the cursor exactly data_size past
\* that record and the iterator Active, and no record is yielded as a decode
\* error twice.
C3_DecodeErrorAdvances ==
    /\ (pc = "iter" /\ last_item.ret = "some" /\ IsDecodeError(last_item.item[1])) =>
          /\ offset_from_chunk_start
                = last_item.item[1].at + DeclaredSize(last_item.item[1].at)
          /\ ~exhausted
    /\ \A j, k \in 1..Len(items) :
          (j < k /\ IsDecodeError(items[j]) /\ IsDecodeError(items[k])) =>
              items[j].at # items[k].at

\* C4: the definition stored at an offset is the first one ever inserted there,
\* and an offset once inserted stays present.
C4_FirstWriteWins ==
    \A o \in DOMAIN first_inserted :
        o \in DOMAIN template_table /\ template_table[o] = first_inserted[o]

\* C5: get_template_data_offset(offset) is None exactly when nothing was ever
\* inserted at the offset, and otherwise the data_size of the first definition
\* inserted there.
C5_DataSizeOfFirstInsertion ==
    cache_reply.fn = "get_template_data_offset" =>
        cache_reply.value =
            (IF cache_reply.offset \in DOMAIN first_inserted
             THEN Some(first_inserted[cache_reply.offset].data_size)
             ELSE None)

\* C6: for a buffer of at least 8 bytes, EvtxChunkData::new gets past the magic
\* check exactly when the first 8 bytes are "ElfChnk" and a NUL; otherwise it
\* returns the invalid-magic error and holds no chunk, whichever
\* validate_checksum was passed.
C6_MagicCheck ==
    (pc # "raw" /\ Len(data) >= 8) =>
        IF SubSeq(data, 1, 8) = Signature
        THEN new_result # "InvalidEvtxChunkMagic"
        ELSE new_result = "InvalidEvtxChunkMagic" /\ header = None /\ pc = "failed"

\* C6's case: only the NUL byte of the signature is wrong and checksum
\* validation was switched off: the chunk is still refused.
C6_Witness ==
    /\ new_result = "InvalidEvtxChunkMagic"
    /\ ~validate_flag
    /\ Len(data) >= 512
    /\ SubSeq(data, 1, 7) = SubSeq(Signature, 1, 7)
    /\ data[8] # 0

\* The checksums as the bytes of the buffer declare and determine them.
DeclaredFreeSpaceOffset == ReadLE(data, 48, 4)

HeaderChecksumMatches ==
    checksum_ieee(SubSeq(data, 1, 120) \o SubSeq(data, 129, 512)) = ReadBytes4(data, 124)

DataRangeUsable == 512 <= DeclaredFreeSpaceOffset /\ DeclaredFreeSpaceOffset <= Len(data)

DataChecksumMatches ==
    /\ DataRangeUsable
    /\ checksum_ieee(SubSeq(data, 513, DeclaredFreeSpaceOffset)) = ReadBytes4(data, 52)

HeaderParses == Len(data) >= 512 /\ SubSeq(data, 1, 8) = Signature

\* C7: validate_checksum() returns true exactly when both checksums equal the
\* declared ones; new(data, true) fails with the invalid-chunk-checksum error
\* exactly when validate_checksum() returns false and succeeds exactly when it
\* returns true; new(data, false) succeeds whenever the header parses.
C7_ChecksumPolicy ==
    /\ (check_result.fn = "validate_checksum" /\ ~check_result.panic) =>
          (check_result.value <=> (HeaderChecksumMatches /\ DataChecksumMatches))
    /\ (pc # "raw" /\ HeaderParses /\ validate_flag) =>
          /\ (new_result = "InvalidChunkChecksum") <=>
                (~HeaderChecksumMatches \/ (DataRangeUsable /\ ~DataChecksumMatches))
          /\ (new_result = "ok") <=> (HeaderChecksumMatches /\ DataChecksumMatches)
    /\ (pc # "raw" /\ HeaderParses /\ ~validate_flag) => new_result = "ok"

\* C7's case: the header checksum is right, the data checksum is wrong, and
\* new(data, true) refused the chunk.
C7_Witness ==
    /\ validate_flag
    /\ new_result = "InvalidChunkChecksum"
    /\ HeaderChecksumMatches
    /\ DataRangeUsable
    /\ ~DataChecksumMatches

\* C8: no call to next aborts: each returns None or an item.
C8_NextNeverAborts == last_item.ret # "panic"

\* C9: neither EvtxChunkData::new nor a validate_* method aborts: each returns.
C9_ChecksumNeverAborts == new_result # "panic" /\ ~check_result.panic

\* The buffer with the byte at Rust offset p changed.
Flipped(p) == Patch(data, p, <<255 - data[p + 1]>>)

\* C10: the checksum validate_header_checksum computes does not change when
\* any byte at offsets 120..127 changes, and changes when a byte next to that
\* range, or the first or last byte of the header, changes.
C10_HeaderChecksumCoverage ==
    check_result.fn = "validate_header_checksum" =>
        /\ \A p \in 120..127 : Some(ComputeHeaderChecksum(Flipped(p))) = check_result.found
        /\ \A p \in {0, 119, 128, 511} :
              Some(ComputeHeaderChecksum(Flipped(p))) # check_result.found

\* C10's case: a chunk with a nonzero flags field (offset 120) and a correct
\* header checksum was validated.
C10_Witness ==
    /\ check_result.fn = "validate_header_checksum"
    /\ check_result.value
    /\ data[121] # 0

\* C11: the checksum validate_data_checksum computes covers exactly the bytes
\* [512, free_space_offset): with the header fixed, changing any byte at or
\* after free_space_offset leaves the computed value unchanged, changing the
\* first or the last byte of the range changes it, and the call returns true
\* exactly when the computed value equals the header's events_checksum.
C11_DataChecksumCoverage ==
    (check_result.fn = "validate_data_checksum" /\ ~check_result.panic) =>
        /\ \A p \in header[1].free_space_offset..(Len(data) - 1) :
              Some(ComputeDataChecksum(Flipped(p), header[1])) = check_result.found
        /\ \A p \in {512, header[1].free_space_offset - 1} :
              (512 <= p /\ p < header[1].free_space_offset) =>
                  Some(ComputeDataChecksum(Flipped(p), header[1])) # check_result.found
        /\ check_result.found
              = Some(checksum_ieee(SubSeq(data, 513, DeclaredFreeSpaceOffset)))
        /\ check_result.value <=> (check_result.found = Some(ReadBytes4(data, 52)))

\* C11's case: the data checksum of a chunk with a record in the range and
\* unused bytes after free_space_offset was validated and matched.
C11_Witness ==
    /\ check_result.fn = "validate_data_checksum"
    /\ check_result.value
    /\ 512 < header[1].free_space_offset
    /\ header[1].free_space_offset < Len(data)

\* C12: a call to next made when the iterator is exhausted or the cursor is at
\* or past free_space_offset returns None and changes neither the cursor, the
\* exhausted flag, the template cache nor the items produced; and after a call
\* that returned None every later call returns None.
C12_EndIsStable ==
    [][pc = "iter" =>
          /\ (exhausted \/ offset_from_chunk_start >= ReadLE(data, 48, 4)) =>
                /\ last_item'.ret = "none"
                /\ last_item'.call = None
                /\ offset_from_chunk_start' = offset_from_chunk_start
                /\ exhausted' = exhausted
                /\ template_table' = template_table
                /\ items' = items
          /\ last_item.ret = "none" => last_item'.ret = "none"]_vars

\* C12's case: a call returned None because the cursor reached
\* free_space_offset, with the iterator not exhausted and an intact record
\* header lying at the cursor.
C12_Witness ==
    /\ pc = "iter"
    /\ last_item.ret = "none"
    /\ ~exhausted
    /\ offset_from_chunk_start >= header[1].free_space_offset
    /\ RecordHeader_from_reader(data, offset_from_chunk_start).ok

\* C13: an iteration pass ends.  The state a call to next works from is the
\* cursor, the exhausted flag and the template cache, so a call that returns
\* an item and leaves all three as they were is repeated by every later call
\* and None is never returned: no call may do that.
C13_PassEnds ==
    [][(pc = "iter" /\ last_item'.ret = "some") =>
          <<offset_from_chunk_start, exhausted, template_table>>'
              # <<offset_from_chunk_start, exhausted, template_table>>]_vars

\* C14: exhausted starts false, is never reset, and is set only by a call that
\* yields a record-header error or the decoded record whose id is the header's
\* last_event_record_id; a decode error on that record leaves the iterator
\* Active, and the call after it yields an item while the cursor is below
\* free_space_offset.
C14_ExhaustedTransitions ==
    [][/\ (pc = "chunk" /\ pc' = "iter") => ~exhausted'
       /\ pc = "iter" =>
             /\ exhausted => exhausted'
             /\ (~exhausted /\ exhausted') =>
                   /\ last_item'.ret = "some"
                   /\ \/ IsHeaderError(last_item'.item[1])
                      \/ /\ IsRecord(last_item'.item[1])
                         /\ last_item'.item[1].record_id = Some(ReadLE(data, 32, 8))
             /\ (last_item'.ret = "some" /\ IsDecodeError(last_item'.item[1])) =>
                   exhausted' = exhausted
             /\ (/\ last_item.ret = "some"
                 /\ IsDecodeError(last_item.item[1])
                 /\ last_item.item[1].record_id = Some(ReadLE(data, 32, 8))
                 /\ offset_from_chunk_start < ReadLE(data, 48, 4)) =>
                   last_item'.ret = "some"]_vars

\* C14's case: the record whose id is last_event_record_id failed to decode,
\* and a later call parsed the record after it.
C14_Witness ==
    /\ pc = "iter"
    /\ ~exhausted
    /\ \E k \in 1..(Len(items) - 1) :
          /\ IsDecodeError(items[k])
          /\ items[k].record_id = Some(header[1].last_event_record_id)
          /\ items[k + 1].at > items[k].at

\* The data_size values declared by the headers of the first k items.
RECURSIVE SumDeclared(_)
SumDeclared(k) == IF k = 0 THEN 0 ELSE DeclaredSize(items[k].at) + SumDeclared(k - 1)

\* C15: the cursor starts at 512 and grows by the declared data_size of each
\* record processed: every item was parsed at 512 plus the sum of the
\* data_size values of the items before it, and the cursor is at 512 plus the
\* sum over all records whose header parsed.
C15_CursorIsSumOfSizes ==
    pc = "iter" =>
        /\ offset_from_chunk_start >= 512
        /\ \A k \in 1..Len(items) : items[k].at = 512 + SumDeclared(k - 1)
        /\ offset_from_chunk_start =
              512 + (IF items # <<>> /\ IsHeaderError(items[Len(items)])
                     THEN SumDeclared(Len(items) - 1)
                     ELSE SumDeclared(Len(items)))

\* C16: a put_template issued while a view returned by get_template_cache is
\* still held completes: no interleaving of readers and inserts aborts.
C16_LazyInsertWithReaders == readers > 0 => pc # "aborted"

\* The 32-bit value v - RECORD_OVERHEAD as its two 16-bit halves.
IsWrappedDifference(size, v) ==
    IF v >= 28 THEN size.hi * 65536 + size.lo = v - 28
    ELSE (65535 - size.hi) * 65536 + (65536 - size.lo) = 28 - v

\* C17: for every record whose header parsed, the token decoder was started
\* at the cursor plus the 24 bytes the record header occupies and bounded to
\* the record's declared data_size minus the 28 bytes of overhead (in 32-bit
\* arithmetic), whatever free_space_offset is; no decoder is set up otherwise.
C17_DecoderBounds ==
    (pc \in {"iter", "aborted"} /\ last_item.ret # "") =>
        IF last_item.ret = "some" /\ ~IsHeaderError(last_item.item[1])
        THEN /\ last_item.call # None
             /\ last_item.call[1].start = last_item.item[1].at + 4 + 4 + 8 + 8
             /\ IsWrappedDifference(last_item.call[1].size,
                                    DeclaredSize(last_item.item[1].at))
        ELSE last_item.call = None

\* C17's case: a record that extends past free_space_offset was handed to the
\* decoder with the bound its own header gives.
C17_Witness ==
    /\ pc = "iter"
    /\ last_item.call # None
    /\ last_item.item[1].at + DeclaredSize(last_item.item[1].at) > header[1].free_space_offset
    /\ last_item.call[1].size = [hi |-> 0, lo |-> DeclaredSize(last_item.item[1].at) - 28]

\* The distinct nonzero values of the 32-slot template table at offset 384.
TableOffsets == { ReadLE(data, 384 + 4 * i, 4) : i \in 0..31 } \ {0}

\* C18: when populate succeeds, the offsets present in the cache are exactly
\* the distinct nonzero values of the offset table, and len() is their number.
C18_PopulateKeys ==
    [][(pc = "chunk_data" /\ pc' = "chunk") =>
          /\ DOMAIN template_table' = TableOffsets
          /\ 0 \notin DOMAIN template_table'
          /\ TemplateCache_len(template_table') = Cardinality(TableOffsets)]_vars

\* C18's case: populate succeeded on a table with a repeated offset and a zero
\* slot between nonzero ones: two entries.
C18_Witness ==
    /\ pc = "chunk"
    /\ header[1].template_offsets[1] = 544
    /\ header[1].template_offsets[2] = 0
    /\ header[1].template_offsets[4] = 544
    /\ DOMAIN template_table = {512, 544}
    /\ TemplateCache_len(template_table) = 2

\* C19: every item is an error or a complete record.  A record carries the id
\* and the timestamp of the header at its position and exactly the decoder's
\* tokens there, in order; a decode error carries the id of the failing record
\* and no tokens, also when the decoder produced tokens before it failed.
C19_ItemsAreComplete ==
    \A k \in 1..Len(items) :
        LET it == items[k]
            d  == binxml[it.at + 24]
        IN  \/ IsHeaderError(it) /\ it.tokens = <<>> /\ it.timestamp = None
            \/ /\ IsRecord(it)
               /\ it.record_id = Some(ReadLE(data, it.at + 8, 8))
               /\ it.timestamp = Some(ReadLE(data, it.at + 16, 8))
               /\ d.iter_ok
               /\ it.tokens = d.stream
               /\ \A i \in 1..Len(it.tokens) : it.tokens[i] # "Err"
            \/ /\ IsDecodeError(it)
               /\ it.record_id = Some(ReadLE(data, it.at + 8, 8))
               /\ it.tokens = <<>>
               /\ it.timestamp = None
               /\ (it.at + 24) \in DOMAIN binxml =>
                     (~d.iter_ok \/ \E i \in 1..Len(d.stream) : d.stream[i] = "Err")

\* C19's case: a record was produced, and a record whose decoder produced a
\* token and then failed was produced as an error.
C19_Witness ==
    /\ \E k \in 1..Len(items) : IsRecord(items[k])
    /\ \E k \in 1..Len(items) :
          /\ IsDecodeError(items[k])
          /\ binxml[items[k].at + 24].iter_ok
          /\ binxml[items[k].at + 24].stream[1] # "Err"

\* Every nonzero offset of the template table holds a definition that decodes.
AllTemplatesDecode ==
    \A o \in TableOffsets : read_template_definition(data, binxml, o).ok

AllStringsDecode == StringCache_populate_ok(data, ReadStringsOffsets(data))

\* C20: parse succeeds exactly when the string table and every nonzero offset
\* of the template table decode; otherwise it returns the error, no template
\* cache is held, not even with the definitions decoded before the failing
\* one, and no iterator was obtained.
C20_AllOrNothing ==
    parse_result # "" =>
        /\ (parse_result = "ok") <=> (AllStringsDecode /\ AllTemplatesDecode)
        /\ parse_result # "ok" =>
              /\ pc = "parse_failed"
              /\ template_table = EmptyMap
              /\ offset_from_chunk_start = 0
              /\ last_item = NotCalled
              /\ items = <<>>

\* C20's case: the first definition of the table decodes, a later one does
\* not, and parse failed.
C20_Witness ==
    /\ pc = "parse_failed"
    /\ AllStringsDecode
    /\ header[1].template_offsets[1] > 0
    /\ read_template_definition(data, binxml, header[1].template_offsets[1]).ok
    /\ ~AllTemplatesDecode

====
